---- MODULE Spec2Model ----
(***************************************************************************)
(* Session turn orchestration of the chat backend: the Redis history cache *)
(* and session lock (app/redis_cache.py), the durable store (app/crud.py), *)
(* the persona prompt (app/characters.py) and the two turn handlers and    *)
(* the session deletion handler (main.py).                                 *)
(***************************************************************************)
EXTENDS Naturals, Sequences, FiniteSets, TLC

VARIABLES
    rds,            \* the Redis keyspace: a function from the existing keys to [val, ttl]
    chat_sessions,  \* table chat_sessions: a function from the existing ids to their row
    chat_history,   \* table chat_history: its rows, in insertion (id) order
    req,            \* the /chat and /chat/stream requests in flight, one record per client
    rm,             \* the DELETE /sessions/{sid} request in flight
    started,        \* how many turn requests have taken a session lock so far
    log             \* the pairs a sequential append_pair driver has appended (SpecAppend)

vars == <<rds, chat_sessions, chat_history, req, rm, started, log>>

---------------------------------------------------------------------------
(* Configuration.  MAX_TURNS, TTL_SECONDS and SESSION_LOCK_TTL_SECONDS are  *)
(* integers read from the environment (defaults 20, 259200, 60) and        *)
(* LOAD_LIMIT is the limit=100 the handlers pass; they are scaled down so  *)
(* that truncation and the row limit are reached within a few turns.       *)

\* HISTORY_MAX_TURNS, redis_cache.py line 18 (default 20)
MAX_TURNS == 1
\* HISTORY_TTL_SECONDS, redis_cache.py line 19 (default 259200)
TTL_SECONDS == 3
\* SESSION_LOCK_TTL_SECONDS, redis_cache.py line 22 (default 60)
SESSION_LOCK_TTL_SECONDS == 2
\* limit=100 of load_history_from_db as the handlers call it, main.py lines 138 and 194
LOAD_LIMIT == 1
\* at most this many turn requests get past the session lock
MaxTurns == 2
\* at most this many fragments in one model stream
MaxFrags == 1
\* at most this many calls of the sequential append_pair driver
MaxAppends == 4
\* at most this many fragments in one model stream of the streaming specification
MaxStreamFrags == 2

\* the sessions of the turn handlers' specification, and those of the cache's
Sessions == {"s1"}
CacheSessions == {"s1", "s2"}
Clients == {"c1", "c2"}
\* the message of the n-th turn request: the handlers only copy a message, so
\* a different message in every turn tells every misplaced copy apart
Message(n) == <<"a", "b", "c", "d", "e", "f">>[n]
\* what the model answers: the one-shot reply, and the fragments of a stream
\* (a stream of n fragments gives the reply of n "x", n = 0 .. MaxFrags)
Replies == {"x"}
Fragments == {"x"}

\* Optional[int] = None of ChatIn.character_id and chat_sessions.character_id
NoneId == 0
\* Optional[str] = None of ChatIn.character_name (None and "" are both falsy)
NoneName == ""

---------------------------------------------------------------------------
(* Sequences *)

Min(a, b) == IF a < b THEN a ELSE b

\* the last n elements
LastN(seq, n) == SubSeq(seq, Len(seq) - Min(n, Len(seq)) + 1, Len(seq))

\* Python's seq[-n:] (seq[-0:] is the whole of seq)
PySuffix(seq, n) == IF n = 0 THEN seq ELSE LastN(seq, n)

\* SQL's LIMIT n on an ordered result
FirstN(seq, n) == SubSeq(seq, 1, Min(n, Len(seq)))

RECURSIVE SelectRows(_, _)
SelectRows(rows, sid) ==
    IF rows = <<>> THEN <<>>
    ELSE IF Head(rows).session_id = sid
         THEN <<Head(rows)>> \o SelectRows(Tail(rows), sid)
         ELSE SelectRows(Tail(rows), sid)

RECURSIVE DeleteRows(_, _)
DeleteRows(rows, sid) ==
    IF rows = <<>> THEN <<>>
    ELSE IF Head(rows).session_id = sid
         THEN DeleteRows(Tail(rows), sid)
         ELSE <<Head(rows)>> \o DeleteRows(Tail(rows), sid)

RECURSIVE Join(_)
Join(parts) == IF parts = <<>> THEN "" ELSE Head(parts) \o Join(Tail(parts))

---------------------------------------------------------------------------
(* Redis: the keyspace is a function whose domain is the set of existing   *)
(* keys; every key the program writes carries an expiry (ex=...).          *)

_key(session_id) == "chat:hist:" \o session_id
_lock_key(session_id) == "chat:lock:" \o session_id

RedisGet(r, k) == IF k \in DOMAIN r THEN r[k].val ELSE <<>>
RedisExists(r, k) == k \in DOMAIN r
RedisSetEx(r, k, v, ex) ==
    [x \in (DOMAIN r) \cup {k} |-> IF x = k THEN [val |-> v, ttl |-> ex] ELSE r[x]]
RedisDel(r, k) == [x \in (DOMAIN r) \ {k} |-> r[x]]
\* one second passes on the server: a key in its last second is gone, every
\* other key has a second less to live (a ttl of 0 is a key without expiry)
RedisTick(r) ==
    [x \in {k \in DOMAIN r : r[k].ttl # 1} |->
        IF r[x].ttl = 0 THEN r[x] ELSE [r[x] EXCEPT !.ttl = @ - 1]]
\* the expiry of key k has run out, whatever it was
RedisExpire(r, k) == RedisDel(r, k)

\* json.dumps / json.loads of a history: a list of {"role", "content"} objects
\* is written as the text of its [role, content] pairs and read back
json_dumps(history) ==
    [i \in 1..Len(history) |-> <<history[i].role, history[i].content>>]
json_loads(raw) ==
    [i \in 1..Len(raw) |-> [role |-> raw[i][1], content |-> raw[i][2]]]

Turn(role, content) == [role |-> role, content |-> content]
Pair(user_msg, assistant_msg) ==
    <<Turn("user", user_msg), Turn("assistant", assistant_msg)>>

get_history(r, session_id) ==
    IF ~RedisExists(r, _key(session_id)) THEN <<>>
    ELSE json_loads(RedisGet(r, _key(session_id)))

\* set_history without its truncation (lines 53-54 left out)
set_history_no_truncate(r, session_id, history) ==
    RedisSetEx(r, _key(session_id), json_dumps(history), TTL_SECONDS)

\* set_history keeping the oldest entries (history[:MAX_TURNS*2])
set_history_keeps_oldest(r, session_id, history) ==
    LET h == IF Len(history) > MAX_TURNS * 2 THEN FirstN(history, MAX_TURNS * 2)
             ELSE history
    IN  RedisSetEx(r, _key(session_id), json_dumps(h), TTL_SECONDS)

\* set_history keeping the time to live of an entry that exists (SET KEEPTTL)
set_history_keepttl(r, session_id, history) ==
    LET h == IF Len(history) > MAX_TURNS * 2 THEN PySuffix(history, MAX_TURNS * 2)
             ELSE history
    IN  RedisSetEx(r, _key(session_id), json_dumps(h),
                   IF RedisExists(r, _key(session_id)) THEN r[_key(session_id)].ttl
                   ELSE TTL_SECONDS)

\* set_history cutting one entry short of the bound (history[-(MAX_TURNS*2-1):])
set_history_odd_cut(r, session_id, history) ==
    LET h == IF Len(history) > MAX_TURNS * 2 THEN PySuffix(history, MAX_TURNS * 2 - 1)
             ELSE history
    IN  RedisSetEx(r, _key(session_id), json_dumps(h), TTL_SECONDS)

set_history(r, session_id, history) ==
    LET h == IF Len(history) > MAX_TURNS * 2 THEN PySuffix(history, MAX_TURNS * 2)
             ELSE history
    IN  RedisSetEx(r, _key(session_id), json_dumps(h), TTL_SECONDS)

\* append_pair with nothing running between its read and its write
append_pair(r, session_id, user_msg, assistant_msg) ==
    set_history(r, session_id,
                get_history(r, session_id) \o Pair(user_msg, assistant_msg))

delete_history(r, session_id) == RedisDel(r, _key(session_id))

\* SET key 1 EX ttl, without NX: the key is always written
acquire_session_lock_no_nx(r, session_id) ==
    [ok |-> TRUE,
     rds |-> RedisSetEx(r, _lock_key(session_id), 1, SESSION_LOCK_TTL_SECONDS)]

\* SET key 1 NX, without EX: the key is written with no expiry (ttl 0)
acquire_session_lock_no_ex(r, session_id) ==
    IF RedisExists(r, _lock_key(session_id))
    THEN [ok |-> FALSE, rds |-> r]
    ELSE [ok |-> TRUE, rds |-> RedisSetEx(r, _lock_key(session_id), 1, 0)]

\* SET key 1 NX EX ttl: the reply and the keyspace after it
acquire_session_lock(r, session_id) ==
    IF RedisExists(r, _lock_key(session_id))
    THEN [ok |-> FALSE, rds |-> r]
    ELSE [ok |-> TRUE,
          rds |-> RedisSetEx(r, _lock_key(session_id), 1, SESSION_LOCK_TTL_SECONDS)]

\* release_session_lock deleting the session's history entry as well
release_session_lock_and_history(r, session_id) ==
    RedisDel(RedisDel(r, _lock_key(session_id)), _key(session_id))

release_session_lock(r, session_id) == RedisDel(r, _lock_key(session_id))

---------------------------------------------------------------------------
(* The durable store (PostgreSQL through SQLAlchemy, autocommit off).  The  *)
(* rows of chat_history are kept in insertion (id) order.  created_at is    *)
(* the server default CURRENT_TIMESTAMP, the start time of the inserting    *)
(* transaction: the two rows of a turn carry the same created_at, and       *)
(* ORDER BY created_at returns rows of equal created_at in any order.       *)

\* table character_info: the personas that exist
character_info ==
    <<[id |-> 1, name |-> "Ann", background |-> "bg", personality |-> "",
       skills |-> "sk", current_playstyle |-> ""],
      [id |-> 2, name |-> "Bob", background |-> "", personality |-> "pe",
       skills |-> "", current_playstyle |-> "st"]>>

NoCharacter ==
    [id |-> NoneId, name |-> "", background |-> "", personality |-> "",
     skills |-> "", current_playstyle |-> ""]

get_character_by_id(cid) ==
    IF \E i \in 1..Len(character_info) : character_info[i].id = cid
    THEN character_info[CHOOSE i \in 1..Len(character_info) : character_info[i].id = cid]
    ELSE NoCharacter

get_character_by_name(name) ==
    IF \E i \in 1..Len(character_info) : character_info[i].name = name
    THEN character_info[CHOOSE i \in 1..Len(character_info) :
                            /\ character_info[i].name = name
                            /\ \A j \in 1..(i - 1) : character_info[j].name # name]
    ELSE NoCharacter

GenericPrompt == "You are a helpful assistant."

\* build_system_prompt looking the character up by name before id
build_system_prompt_name_first(character_name, character_id) ==
    LET char == IF character_name # NoneName THEN get_character_by_name(character_name)
                ELSE IF character_id # NoneId THEN get_character_by_id(character_id)
                ELSE NoCharacter
        parts == <<"name:" \o char.name>>
                 \o (IF char.background # "" THEN <<"background:" \o char.background>> ELSE <<>>)
                 \o (IF char.personality # "" THEN <<"personality:" \o char.personality>> ELSE <<>>)
                 \o (IF char.skills # "" THEN <<"skills:" \o char.skills>> ELSE <<>>)
                 \o (IF char.current_playstyle # ""
                     THEN <<"style:" \o char.current_playstyle>> ELSE <<>>)
                 \o <<"stay in character">>
    IN  IF char = NoCharacter THEN GenericPrompt
        ELSE Join([i \in 1..Len(parts) |-> IF i = 1 THEN parts[i] ELSE "\n" \o parts[i]])

build_system_prompt(character_name, character_id) ==
    LET char == IF character_id # NoneId THEN get_character_by_id(character_id)
                ELSE IF character_name # NoneName THEN get_character_by_name(character_name)
                ELSE NoCharacter
        parts == <<"name:" \o char.name>>
                 \o (IF char.background # "" THEN <<"background:" \o char.background>> ELSE <<>>)
                 \o (IF char.personality # "" THEN <<"personality:" \o char.personality>> ELSE <<>>)
                 \o (IF char.skills # "" THEN <<"skills:" \o char.skills>> ELSE <<>>)
                 \o (IF char.current_playstyle # ""
                     THEN <<"style:" \o char.current_playstyle>> ELSE <<>>)
                 \o <<"stay in character">>
    IN  IF char = NoCharacter THEN GenericPrompt
        ELSE Join([i \in 1..Len(parts) |-> IF i = 1 THEN parts[i] ELSE "\n" \o parts[i]])

\* the character_id the turn goes on with
_fill_bound_character_if_absent(sessions, session_id, character_name, character_id) ==
    IF character_id = NoneId /\ character_name = NoneName
    THEN IF session_id \in DOMAIN sessions /\ sessions[session_id].character_id # NoneId
         THEN sessions[session_id].character_id
         ELSE character_id
    ELSE character_id

assemble_messages(system_prompt, history, user_msg) ==
    <<Turn("system", system_prompt)>> \o history \o <<Turn("user", user_msg)>>

\* the chat_sessions table after upsert_session (last_active_at is not kept)
upsert_session(sessions, session_id, character_id) ==
    IF session_id \in DOMAIN sessions THEN sessions
    ELSE [x \in (DOMAIN sessions) \cup {session_id} |->
            IF x = session_id THEN [character_id |-> character_id] ELSE sessions[x]]

HistoryRow(session_id, character_id, character_name, role, message, created_at) ==
    [session_id |-> session_id, character_id |-> character_id,
     character_name |-> character_name, role |-> role, message |-> message,
     created_at |-> created_at]

\* add_turn writing the assistant row before the user row
add_turn_assistant_first(sessions, rows, session_id, character_id, character_name, user_msg, assistant_msg, txn) ==
    [sessions |-> upsert_session(sessions, session_id, character_id),
     rows |-> rows \o <<HistoryRow(session_id, character_id, character_name,
                                   "assistant", assistant_msg, txn),
                        HistoryRow(session_id, character_id, character_name,
                                   "user", user_msg, txn)>>]

\* both tables after add_turn has committed, in the transaction begun at txn
add_turn(sessions, rows, session_id, character_id, character_name, user_msg, assistant_msg, txn) ==
    [sessions |-> upsert_session(sessions, session_id, character_id),
     rows |-> rows \o <<HistoryRow(session_id, character_id, character_name,
                                   "user", user_msg, txn),
                        HistoryRow(session_id, character_id, character_name,
                                   "assistant", assistant_msg, txn)>>]

RowTurns(rows) == [i \in 1..Len(rows) |-> Turn(rows[i].role, rows[i].message)]

\* ORDER BY created_at ASC: every order of the rows that ascends in created_at
RECURSIVE OrderByCreatedAt(_)
OrderByCreatedAt(rows) ==
    IF rows = <<>> THEN {<<>>}
    ELSE LET t == CHOOSE t \in {rows[i].created_at : i \in 1..Len(rows)} :
                      \A i \in 1..Len(rows) : t <= rows[i].created_at
             first == SelectSeq(rows, LAMBDA r : r.created_at = t)
             rest == SelectSeq(rows, LAMBDA r : r.created_at # t)
         IN  {[i \in 1..Len(first) |-> first[p[i]]] \o o :
                 p \in Permutations(1..Len(first)), o \in OrderByCreatedAt(rest)}

\* the results load_history_from_db may return
load_history_from_db(rows, session_id, limit) ==
    {RowTurns(FirstN(o, limit)) : o \in OrderByCreatedAt(SelectRows(rows, session_id))}

\* both tables after delete_session, and what it returns
delete_session(sessions, rows, sid) ==
    IF sid \notin DOMAIN sessions
    THEN [deleted |-> 0, sessions |-> sessions, rows |-> rows]
    ELSE [deleted |-> 1,
          sessions |-> [x \in (DOMAIN sessions) \ {sid} |-> sessions[x]],
          rows |-> DeleteRows(rows, sid)]

\* main.py 326-334: remove_session run from start to end with nothing in
\* between: the cache and both tables when its response goes out
remove_session(r, sessions, rows, sid) ==
    LET result == delete_session(sessions, rows, sid)
    IN  [deleted |-> result.deleted,
         sessions |-> result.sessions,
         rows |-> result.rows,
         rds |-> IF result.deleted = 1
                 THEN release_session_lock(delete_history(r, sid), sid)
                 ELSE r]

---------------------------------------------------------------------------
(* The requests.  A client has at most one turn request in flight; pc names *)
(* the step the handler takes next, the other fields are the handler's      *)
(* locals (body.*, history, messages, full_reply_content, reply, hist), the *)
(* events the streaming response has emitted and the outcome.               *)

CharacterIds == {NoneId}

ContentEvent(chunk) == <<"content", chunk>>
ErrorEvent == <<"error", "">>
DoneEvent == <<"[DONE]", "">>

Idle ==
    [pc |-> "idle", kind |-> "", session_id |-> "", message |-> "",
     character_id |-> NoneId, character_name |-> NoneName,
     history |-> <<>>, messages |-> <<>>, full_reply_content |-> <<>>,
     reply |-> "", hist |-> <<>>, txn |-> 0, out |-> <<>>, status |-> ""]

\* an exception unwinds the handler to its finally block: the locals are gone
Unwind(q, status) ==
    [Idle EXCEPT !.pc = "release", !.kind = q.kind, !.session_id = q.session_id,
                 !.out = q.out, !.status = status]

RunningPcs ==
    {"locked", "gen_pending", "load", "model", "err_yielded",
     "append_get", "append_set", "add_turn", "release"}

Running(c) == req[c].pc \in RunningPcs

\* the database clock when a transaction begins: later than every created_at
\* in the table and than the start of every transaction in flight (only the
\* order of the timestamps matters)
CurrentTimestamp ==
    LET stamps == {chat_history[i].created_at : i \in 1..Len(chat_history)}
                  \cup {req[c].txn : c \in Clients}
    IN  1 + CHOOSE t \in stamps : \A u \in stamps : u <= t

Init ==
    /\ rds = <<>>
    /\ chat_sessions = <<>>
    /\ chat_history = <<>>
    /\ req = [c \in Clients |-> Idle]
    /\ rm = [pc |-> "idle", sid |-> ""]
    /\ started = 0
    /\ log = <<>>

\* the refusal ignored: the handler goes on without the lock
Conflict_Proceeds(c, kind, s) ==
    /\ rds' = rds
    /\ req' = [req EXCEPT ![c] =
                 [Idle EXCEPT !.pc = IF kind = "chat" THEN "locked" ELSE "gen_pending",
                              !.kind = kind, !.session_id = s,
                              !.message = Message(started + 1)]]

\* the refusal raised inside the try block: the finally releases the holder's lock
Conflict_Releases(c, kind, s) ==
    /\ rds' = release_session_lock(rds, s)
    /\ req' = [req EXCEPT ![c] = [Idle EXCEPT !.pc = "refused", !.kind = kind,
                                              !.session_id = s, !.status = "409"]]

\* main.py 131-132 and 185-186: the lock is taken, the request is refused
Conflict(c, kind, s) ==
    /\ rds' = rds
    /\ req' = [req EXCEPT ![c] = [Idle EXCEPT !.pc = "refused", !.kind = kind,
                                              !.session_id = s, !.status = "409"]]

\* main.py 126-132 and 180-186: a request arrives and tries to take the lock
Acquire(c, kind, s, m, cid) ==
    /\ req[c].pc = "idle"
    /\ LET got == acquire_session_lock(rds, s)
       IN  IF got.ok
           THEN /\ started < MaxTurns
                /\ started' = started + 1
                /\ rds' = got.rds
                /\ req' = [req EXCEPT ![c] =
                             [Idle EXCEPT !.pc = IF kind = "chat" THEN "locked"
                                                 ELSE "gen_pending",
                                          !.kind = kind, !.session_id = s,
                                          !.message = m, !.character_id = cid]]
           ELSE Conflict(c, kind, s) /\ started' = started
    /\ UNCHANGED <<chat_sessions, chat_history, rm, log>>

\* main.py 132 and 186: the 409 response has gone out
Refused(c) ==
    /\ req[c].pc = "refused"
    /\ req' = [req EXCEPT ![c] = Idle]
    /\ UNCHANGED <<rds, chat_sessions, chat_history, rm, started, log>>

\* main.py 136 and 192: history = await get_history(...); for a streaming turn
\* this is where the generator starts running
GetHistory(c) ==
    /\ req[c].pc \in {"locked", "gen_pending"}
    /\ req' = [req EXCEPT ![c].pc = "load",
                          ![c].history = get_history(rds, req[c].session_id)]
    /\ UNCHANGED <<rds, chat_sessions, chat_history, rm, started, log>>

\* the history loaded from the store written back to the cache
LoadAndBuild_Repopulates(c) ==
    /\ req[c].pc = "load"
    /\ LET q == req[c]
           cid == _fill_bound_character_if_absent(chat_sessions, q.session_id,
                                                  q.character_name, q.character_id)
           system_prompt == build_system_prompt(q.character_name, cid)
       IN  \E history \in (IF q.history = <<>>
                            THEN load_history_from_db(chat_history, q.session_id, LOAD_LIMIT)
                            ELSE {q.history}) :
               /\ req' = [req EXCEPT ![c].pc = "model",
                                     ![c].history = <<>>,
                                     ![c].character_id = cid,
                                     ![c].txn = CurrentTimestamp,
                                     ![c].messages =
                                         assemble_messages(system_prompt, history, q.message)]
               /\ rds' = IF q.history = <<>> /\ history # <<>>
                         THEN set_history(rds, q.session_id, history) ELSE rds
    /\ UNCHANGED <<chat_sessions, chat_history, rm, started, log>>

\* main.py 137-145 and 193-201: the store fallback, the bound character, the
\* prompt.  The request's database session begins its transaction at the first
\* query it runs, and these lines always run one (the bound character's when
\* the request names no character, the named character's when it does).
LoadAndBuild(c) ==
    /\ req[c].pc = "load"
    /\ LET q == req[c]
           cid == _fill_bound_character_if_absent(chat_sessions, q.session_id,
                                                  q.character_name, q.character_id)
           system_prompt == build_system_prompt(q.character_name, cid)
       IN  \E history \in (IF q.history = <<>>
                            THEN load_history_from_db(chat_history, q.session_id, LOAD_LIMIT)
                            ELSE {q.history}) :
               req' = [req EXCEPT ![c].pc = "model",
                                  ![c].history = <<>>,
                                  ![c].character_id = cid,
                                  ![c].txn = CurrentTimestamp,
                                  ![c].messages =
                                      assemble_messages(system_prompt, history, q.message)]
    /\ UNCHANGED <<rds, chat_sessions, chat_history, rm, started, log>>

\* main.py 150: the one-shot model call returns (messages is not used again)
ChatCompletion(c, reply) ==
    /\ req[c].pc = "model" /\ req[c].kind = "chat"
    /\ req' = [req EXCEPT ![c].pc = "append_get", ![c].reply = reply,
                          ![c].messages = <<>>]
    /\ UNCHANGED <<rds, chat_sessions, chat_history, rm, started, log>>

\* main.py 151-153: the one-shot model call raises, HTTPException(502)
ChatCompletionError(c) ==
    /\ req[c].pc = "model" /\ req[c].kind = "chat"
    /\ req' = [req EXCEPT ![c] = Unwind(req[c], "502")]
    /\ UNCHANGED <<rds, chat_sessions, chat_history, rm, started, log>>

\* the fragment forwarded but not collected (line 207 left out)
StreamChunkUpTo_NotCollected(c, chunk, max) ==
    /\ req[c].pc = "model" /\ req[c].kind = "stream"
    /\ Len(req[c].out) < max
    /\ req' = [req EXCEPT ![c].out = Append(@, ContentEvent(chunk))]
    /\ UNCHANGED <<rds, chat_sessions, chat_history, rm, started, log>>

\* main.py 206-209: a fragment arrives, is collected and forwarded; the model
\* sends at most max fragments in one stream
StreamChunkUpTo(c, chunk, max) ==
    /\ req[c].pc = "model" /\ req[c].kind = "stream"
    /\ Len(req[c].full_reply_content) < max
    /\ req' = [req EXCEPT ![c].full_reply_content = Append(@, chunk),
                          ![c].out = Append(@, ContentEvent(chunk))]
    /\ UNCHANGED <<rds, chat_sessions, chat_history, rm, started, log>>

StreamChunk(c, chunk) == StreamChunkUpTo(c, chunk, MaxFrags)

\* the end marker emitted when the model stream ends, before the writes
StreamEnd_DoneFirst(c) ==
    /\ req[c].pc = "model" /\ req[c].kind = "stream"
    /\ req' = [req EXCEPT ![c].pc = "append_get",
                          ![c].reply = Join(req[c].full_reply_content),
                          ![c].messages = <<>>,
                          ![c].full_reply_content = <<>>,
                          ![c].out = Append(@, DoneEvent)]
    /\ UNCHANGED <<rds, chat_sessions, chat_history, rm, started, log>>

\* main.py 217: the model stream is exhausted, the fragments are joined
\* (messages and full_reply_content are not used again)
StreamEnd(c) ==
    /\ req[c].pc = "model" /\ req[c].kind = "stream"
    /\ req' = [req EXCEPT ![c].pc = "append_get",
                          ![c].reply = Join(req[c].full_reply_content),
                          ![c].messages = <<>>,
                          ![c].full_reply_content = <<>>]
    /\ UNCHANGED <<rds, chat_sessions, chat_history, rm, started, log>>

\* the except branch without its first yield: no error event is emitted
StreamError_Silent(c) ==
    /\ req[c].pc = "model" /\ req[c].kind = "stream"
    /\ req' = [req EXCEPT ![c] = [Unwind(req[c], "upstream") EXCEPT !.pc = "err_yielded"]]
    /\ UNCHANGED <<rds, chat_sessions, chat_history, rm, started, log>>

\* main.py 210-212: the model stream raises, the error event is emitted
StreamError(c) ==
    /\ req[c].pc = "model" /\ req[c].kind = "stream"
    /\ req' = [req EXCEPT ![c] = [Unwind(req[c], "upstream") EXCEPT
                                      !.pc = "err_yielded",
                                      !.out = Append(@, ErrorEvent)]]
    /\ UNCHANGED <<rds, chat_sessions, chat_history, rm, started, log>>

\* the return of line 215 left out: the partial text goes on to be persisted
StreamErrorDone_FallsThrough(c) ==
    /\ req[c].pc = "err_yielded"
    /\ req' = [req EXCEPT ![c].pc = "append_get", ![c].out = Append(@, DoneEvent)]
    /\ UNCHANGED <<rds, chat_sessions, chat_history, rm, started, log>>

\* main.py 214-215: the end marker after the error event, then return
StreamErrorDone(c) ==
    /\ req[c].pc = "err_yielded"
    /\ req' = [req EXCEPT ![c].pc = "release", ![c].out = Append(@, DoneEvent)]
    /\ UNCHANGED <<rds, chat_sessions, chat_history, rm, started, log>>

\* redis_cache.py 58-62: append_pair reads the history and extends it
AppendPairGet(c) ==
    /\ req[c].pc = "append_get"
    /\ req' = [req EXCEPT ![c].pc = "append_set",
                          ![c].hist = get_history(rds, req[c].session_id)
                                      \o Pair(req[c].message, req[c].reply)]
    /\ UNCHANGED <<rds, chat_sessions, chat_history, rm, started, log>>

\* the lock released as soon as the cache is written, before the store write
AppendPairSet_Releases(c) ==
    /\ req[c].pc = "append_set"
    /\ rds' = release_session_lock(set_history(rds, req[c].session_id, req[c].hist),
                                   req[c].session_id)
    /\ req' = [req EXCEPT ![c].pc = "add_turn", ![c].hist = <<>>]
    /\ UNCHANGED <<chat_sessions, chat_history, rm, started, log>>

\* redis_cache.py 63: append_pair writes the history back
AppendPairSet(c) ==
    /\ req[c].pc = "append_set"
    /\ rds' = set_history(rds, req[c].session_id, req[c].hist)
    /\ req' = [req EXCEPT ![c].pc = "add_turn", ![c].hist = <<>>]
    /\ UNCHANGED <<chat_sessions, chat_history, rm, started, log>>

\* the failure of append_pair caught and ignored: the turn goes on to add_turn
AppendPairError_Caught(c) ==
    /\ req[c].pc \in {"append_get", "append_set"}
    /\ req' = [req EXCEPT ![c].pc = "add_turn", ![c].hist = <<>>]
    /\ UNCHANGED <<rds, chat_sessions, chat_history, rm, started, log>>

\* main.py 156 and 219: a Redis command of append_pair raises
AppendPairError(c) ==
    /\ req[c].pc \in {"append_get", "append_set"}
    /\ req' = [req EXCEPT ![c] = Unwind(req[c], "500")]
    /\ UNCHANGED <<rds, chat_sessions, chat_history, rm, started, log>>

\* main.py 157-165 and 220-229: add_turn commits; the reply, or the end marker
AddTurn(c) ==
    /\ req[c].pc = "add_turn"
    /\ LET q == req[c]
           db == add_turn(chat_sessions, chat_history, q.session_id, q.character_id,
                          q.character_name, q.message, q.reply, q.txn)
       IN  /\ chat_sessions' = db.sessions
           /\ chat_history' = db.rows
           /\ req' = [req EXCEPT ![c].pc = "release", ![c].status = "200",
                                 ![c].out = IF q.kind = "stream"
                                            THEN Append(@, DoneEvent) ELSE @]
    /\ UNCHANGED <<rds, rm, started, log>>

\* main.py 157 and 220: add_turn raises, nothing is committed
AddTurnError(c) ==
    /\ req[c].pc = "add_turn"
    /\ req' = [req EXCEPT ![c] = Unwind(req[c], "500")]
    /\ UNCHANGED <<rds, chat_sessions, chat_history, rm, started, log>>

\* main.py 166-168 and 231-233: finally, release the lock
Release(c) ==
    /\ req[c].pc = "release"
    /\ rds' = release_session_lock(rds, req[c].session_id)
    /\ req' = [req EXCEPT ![c] = Idle]
    /\ UNCHANGED <<chat_sessions, chat_history, rm, started, log>>

\* The caller goes away.  A handler suspended inside its try block gets the
\* cancellation there and runs its finally; a response generator that has not
\* been started has no frame to unwind: its body, finally included, never runs.
Cancel(c) ==
    /\ req[c].pc \in RunningPcs \ {"release"}
    /\ IF req[c].pc = "gen_pending"
       THEN req' = [req EXCEPT ![c] = Idle]
       ELSE req' = [req EXCEPT ![c] = Unwind(req[c], "cancelled")]
    /\ UNCHANGED <<rds, chat_sessions, chat_history, rm, started, log>>

\* main.py 329-330: DELETE /sessions/{sid}, delete_session commits
RemoveSession(s) ==
    /\ rm.pc = "idle"
    /\ LET result == delete_session(chat_sessions, chat_history, s)
       IN  /\ chat_sessions' = result.sessions
           /\ chat_history' = result.rows
           /\ rm' = IF result.deleted = 1 THEN [pc |-> "delete_history", sid |-> s]
                    ELSE rm
    /\ UNCHANGED <<rds, req, started, log>>

\* main.py 331
RemoveSessionHistory ==
    /\ rm.pc = "delete_history"
    /\ rds' = delete_history(rds, rm.sid)
    /\ rm' = [rm EXCEPT !.pc = "release"]
    /\ UNCHANGED <<chat_sessions, chat_history, req, started, log>>

\* main.py 333
RemoveSessionLock ==
    /\ rm.pc = "release"
    /\ rds' = release_session_lock(rds, rm.sid)
    /\ rm' = [pc |-> "idle", sid |-> ""]
    /\ UNCHANGED <<chat_sessions, chat_history, req, started, log>>

\* redis_cache.py 74: the lock key of s outlives its ex=SESSION_LOCK_TTL_SECONDS
LockExpire(s) ==
    /\ RedisExists(rds, _lock_key(s))
    /\ rds' = RedisExpire(rds, _lock_key(s))
    /\ UNCHANGED <<chat_sessions, chat_history, req, rm, started, log>>

\* redis_cache.py 55: the history key of s outlives its ex=TTL_SECONDS
HistoryExpire(s) ==
    /\ RedisExists(rds, _key(s))
    /\ rds' = RedisExpire(rds, _key(s))
    /\ UNCHANGED <<chat_sessions, chat_history, req, rm, started, log>>

\* a step of a turn request
TurnStep ==
    \/ \E c \in Clients, kind \in {"chat", "stream"}, s \in Sessions,
          m \in {Message(started + 1)}, cid \in CharacterIds : Acquire(c, kind, s, m, cid)
    \/ \E c \in Clients : Refused(c)
    \/ \E c \in Clients : GetHistory(c)
    \/ \E c \in Clients : LoadAndBuild(c)
    \/ \E c \in Clients, reply \in Replies : ChatCompletion(c, reply)
    \/ \E c \in Clients : ChatCompletionError(c)
    \/ \E c \in Clients, chunk \in Fragments : StreamChunk(c, chunk)
    \/ \E c \in Clients : StreamEnd(c)
    \/ \E c \in Clients : StreamError(c)
    \/ \E c \in Clients : StreamErrorDone(c)
    \/ \E c \in Clients : AppendPairGet(c)
    \/ \E c \in Clients : AppendPairSet(c)
    \/ \E c \in Clients : AppendPairError(c)
    \/ \E c \in Clients : AddTurn(c)
    \/ \E c \in Clients : AddTurnError(c)
    \/ \E c \in Clients : Release(c)
    \/ \E c \in Clients : Cancel(c)

\* a step of a session deletion, or the expiry of a key
OtherStep ==
    \/ \E s \in Sessions : RemoveSession(s)
    \/ RemoveSessionHistory
    \/ RemoveSessionLock
    \/ \E s \in Sessions : LockExpire(s)
    \/ \E s \in Sessions : HistoryExpire(s)

Next == TurnStep \/ OtherStep

\* The turn handlers, session deletion and key expiry in any interleaving.
Spec == Init /\ [][Next]_vars

\* The same, with no key expiring and no session deleted while a turn runs:
\* the lock TTL exceeds every turn's duration and nobody deletes a session in use.
NextUndisturbed == TurnStep \/ ((\A c \in Clients : ~Running(c)) /\ OtherStep)

SpecUndisturbed == Init /\ [][NextUndisturbed]_vars

---------------------------------------------------------------------------
(* The cache API on its own: callers of set_history, append_pair (a read   *)
(* and a write, with anything in between) and delete_history, and expiry.  *)

\* the histories a caller may hand to set_history: user and assistant turns in
\* alternation, of every length up to two over the bound
Histories ==
    {[i \in 1..n |-> IF i % 2 = 1 THEN Turn("user", "a") ELSE Turn("assistant", "x")] :
        n \in 0..(2 * MAX_TURNS + 2)}

\* a caller enters append_pair(s, user_msg, assistant_msg)
CacheAppendPair(c, s, user_msg, assistant_msg) ==
    /\ req[c].pc = "idle"
    /\ req' = [req EXCEPT ![c] = [Idle EXCEPT !.pc = "append_get", !.session_id = s,
                                              !.message = user_msg,
                                              !.reply = assistant_msg]]
    /\ UNCHANGED <<rds, chat_sessions, chat_history, rm, started, log>>

\* append_pair has returned to its caller
CacheAppendPairReturn(c) ==
    /\ req[c].pc = "add_turn"
    /\ req' = [req EXCEPT ![c] = Idle]
    /\ UNCHANGED <<rds, chat_sessions, chat_history, rm, started, log>>

CacheSetHistory(s, history) ==
    /\ rds' = set_history(rds, s, history)
    /\ UNCHANGED <<chat_sessions, chat_history, req, rm, started, log>>

CacheDeleteHistory(s) ==
    /\ rds' = delete_history(rds, s)
    /\ UNCHANGED <<chat_sessions, chat_history, req, rm, started, log>>

NextCache ==
    \/ \E c \in Clients, s \in CacheSessions : CacheAppendPair(c, s, "a", "x")
    \/ \E c \in Clients : AppendPairGet(c)
    \/ \E c \in Clients : AppendPairSet(c)
    \/ \E c \in Clients : CacheAppendPairReturn(c)
    \/ \E s \in CacheSessions, history \in Histories : CacheSetHistory(s, history)
    \/ \E s \in CacheSessions : CacheDeleteHistory(s)
    \/ \E s \in CacheSessions : HistoryExpire(s)

SpecCache == Init /\ [][NextCache]_vars

---------------------------------------------------------------------------
(* append_pair called again and again for one session, each call complete *)
(* before the next; log holds what has been appended.                      *)

AppendMessages == {"a", "b"}
AppendReplies == {"A", "B"}

AppendNext(user_msg, assistant_msg) ==
    /\ Len(log) < 2 * MaxAppends
    /\ rds' = append_pair(rds, "s1", user_msg, assistant_msg)
    /\ log' = log \o Pair(user_msg, assistant_msg)
    /\ UNCHANGED <<chat_sessions, chat_history, req, rm, started>>

NextAppend ==
    \E user_msg \in AppendMessages, assistant_msg \in AppendReplies :
        AppendNext(user_msg, assistant_msg)

SpecAppend == Init /\ [][NextAppend]_vars

---------------------------------------------------------------------------
(* The session lock in time: requests take the lock, a holder's process may *)
(* die before its release, and the seconds of the key's expiry pass.        *)

\* the process of a lock holder dies: nothing of its handler runs any more
HolderCrash(c) ==
    /\ req[c].pc \in {"locked", "gen_pending"}
    /\ req' = [req EXCEPT ![c] = Idle]
    /\ UNCHANGED <<rds, chat_sessions, chat_history, rm, started, log>>

\* a second passes while some key has an expiry running
Tick ==
    /\ \E k \in DOMAIN rds : rds[k].ttl > 0
    /\ rds' = RedisTick(rds)
    /\ UNCHANGED <<chat_sessions, chat_history, req, rm, started, log>>

NextTimed ==
    \/ \E c \in Clients, kind \in {"chat", "stream"}, s \in CacheSessions :
          Acquire(c, kind, s, Message(started + 1), NoneId)
    \/ \E c \in Clients : Refused(c)
    \/ \E c \in Clients : HolderCrash(c)
    \/ Tick

\* time does not stop
SpecTimed == Init /\ [][NextTimed]_vars /\ WF_vars(Tick)

---------------------------------------------------------------------------
(* The streaming handler on its own: streaming turns whose callers stay     *)
(* connected, with model streams of different fragments.                    *)

StreamFragments == {"x", "y"}

NextStream ==
    \/ \E c \in Clients, s \in Sessions :
          Acquire(c, "stream", s, Message(started + 1), NoneId)
    \/ \E c \in Clients : Refused(c)
    \/ \E c \in Clients : GetHistory(c)
    \/ \E c \in Clients : LoadAndBuild(c)
    \/ \E c \in Clients, chunk \in StreamFragments :
          StreamChunkUpTo(c, chunk, MaxStreamFrags)
    \/ \E c \in Clients : StreamEnd(c)
    \/ \E c \in Clients : StreamError(c)
    \/ \E c \in Clients : StreamErrorDone(c)
    \/ \E c \in Clients : AppendPairGet(c)
    \/ \E c \in Clients : AppendPairSet(c)
    \/ \E c \in Clients : AppendPairError(c)
    \/ \E c \in Clients : AddTurn(c)
    \/ \E c \in Clients : AddTurnError(c)
    \/ \E c \in Clients : Release(c)

SpecStream == Init /\ [][NextStream]_vars

---------------------------------------------------------------------------
(* The model client, qiniu_llm.py, on its own.  A call is a function of   *)
(* what the upstream service answers: the HTTP status, the body (one-shot) *)
(* or the lines of the event stream, and whether the connection breaks     *)
(* after them.  log holds the last call: the answer and what the caller    *)
(* got.                                                                     *)

\* the longest upstream event stream
MaxLines == 3

Statuses == {200, 500}

\* one-shot bodies: a completion with text, JSON without choices, not JSON
Bodies == {"completion", "no_choices", "not_json"}

\* lines of the upstream stream: a blank heartbeat line, a line that is not a
\* data: line, data: [DONE], data: with a delta carrying text, with a delta
\* carrying no text, and data: followed by something that is not JSON
UpstreamLines ==
    {<<"blank", "">>, <<"comment", "">>, <<"data", "[DONE]">>,
     <<"delta", "x">>, <<"delta", "">>, <<"data", "garbage">>}

UpstreamStreams == UNION {[1..n -> UpstreamLines] : n \in 0..MaxLines}

\* qiniu_llm.py 104 and 135: the other records chat_stream yields
StatusEvent(status) == <<"error", status>>
RawEvent(line) == <<"raw", line>>

\* qiniu_llm.py 62-70: chat_completion
chat_completion(status, body) ==
    IF status # 200 THEN [raised |-> "LLMError", returned |-> ""]
    ELSE IF body = "not_json" THEN [raised |-> "ValueError", returned |-> ""]
    ELSE IF body = "no_choices" THEN [raised |-> "LLMError", returned |-> ""]
    ELSE [raised |-> "", returned |-> "x"]

\* qiniu_llm.py 109-138: the loop over the upstream lines from line i on;
\* done tells whether the loop ended by the break of data: [DONE]
RECURSIVE iter_lines(_, _)
iter_lines(lines, i) ==
    IF i > Len(lines) THEN [yielded |-> <<>>, done |-> FALSE]
    ELSE LET raw == lines[i]
             rest == iter_lines(lines, i + 1)
         IN  IF raw[1] \in {"blank", "comment"} THEN rest
             ELSE IF raw = <<"data", "[DONE]">>
                  THEN [yielded |-> <<DoneEvent>>, done |-> TRUE]
             ELSE IF raw[1] = "delta"
                  THEN IF raw[2] # ""
                       THEN [rest EXCEPT !.yielded = <<ContentEvent(raw[2])>> \o @]
                       ELSE rest
             ELSE [rest EXCEPT !.yielded = <<RawEvent(raw[2])>> \o @]

\* qiniu_llm.py 96-141: chat_stream, everything it yields and whether it ends
\* by raising (the connection breaks while it waits for the next line)
chat_stream(status, lines, broken) ==
    IF status # 200
    THEN [yielded |-> <<StatusEvent(status), DoneEvent>>, raised |-> ""]
    ELSE LET loop == iter_lines(lines, 1)
         IN  IF broken /\ ~loop.done
             THEN [yielded |-> loop.yielded, raised |-> "ConnectionError"]
             ELSE [yielded |-> loop.yielded \o <<DoneEvent>>, raised |-> ""]

CallChatCompletion(status, body) ==
    /\ log' = <<[call |-> "chat_completion", status |-> status, body |-> body,
                 result |-> chat_completion(status, body)]>>
    /\ UNCHANGED <<rds, chat_sessions, chat_history, req, rm, started>>

CallChatStream(status, lines, broken) ==
    /\ log' = <<[call |-> "chat_stream", status |-> status, lines |-> lines,
                 broken |-> broken, result |-> chat_stream(status, lines, broken)]>>
    /\ UNCHANGED <<rds, chat_sessions, chat_history, req, rm, started>>

NextClient ==
    \/ \E status \in Statuses, body \in Bodies : CallChatCompletion(status, body)
    \/ \E status \in Statuses, lines \in UpstreamStreams, broken \in BOOLEAN :
          CallChatStream(status, lines, broken)

SpecClient == Init /\ [][NextClient]_vars

---------------------------------------------------------------------------
(* The whole cache API, locks included, called for two sessions in any     *)
(* order, each call complete before the next; log holds the calls made and *)
(* what they returned.                                                      *)

\* the longest sequence of calls
MaxCalls == 3

\* redis_cache.py 43-79: one call of op for session s; history is the argument
\* of set_history
CacheCall(op, s, history) ==
    /\ Len(log) < MaxCalls
    /\ LET got == acquire_session_lock(rds, s)
           after == CASE op = "acquire_session_lock" -> got.rds
                      [] op = "release_session_lock" -> release_session_lock(rds, s)
                      [] op = "get_history" -> rds
                      [] op = "set_history" -> set_history(rds, s, history)
                      [] op = "append_pair" -> append_pair(rds, s, "a", "x")
                      [] op = "delete_history" -> delete_history(rds, s)
           returned == CASE op = "acquire_session_lock" -> <<got.ok>>
                         [] op = "get_history" -> get_history(rds, s)
                         [] OTHER -> <<>>
       IN  /\ rds' = after
           /\ log' = Append(log, [op |-> op, session_id |-> s, returned |-> returned])
    /\ UNCHANGED <<chat_sessions, chat_history, req, rm, started>>

LockOps == {"acquire_session_lock", "release_session_lock"}
HistoryOps == {"get_history", "set_history", "append_pair", "delete_history"}

NextKeys ==
    \/ \E op \in LockOps \cup (HistoryOps \ {"set_history"}), s \in CacheSessions :
          CacheCall(op, s, <<>>)
    \/ \E s \in CacheSessions, history \in Histories : CacheCall("set_history", s, history)

SpecKeys == Init /\ [][NextKeys]_vars

---------------------------------------------------------------------------
(* The history entry in time: the history calls for one session, and the   *)
(* seconds of the entry's expiry passing between them.                      *)

NextSliding ==
    \/ \E op \in HistoryOps \ {"set_history"}, s \in Sessions : CacheCall(op, s, <<>>)
    \/ \E s \in Sessions, history \in Histories : CacheCall("set_history", s, history)
    \/ Tick

\* time does not stop
SpecSliding == Init /\ [][NextSliding]_vars /\ WF_vars(Tick)

---------------------------------------------------------------------------
(* The system prompt on its own: a session gets bound to a character, by   *)
(* the bind endpoint or by its first turn, and prompts are built for        *)
(* requests naming a character by id, by name, by both or not at all; log   *)
(* holds the last prompt built and what it was built from.                  *)

\* the character ids and names a request may carry: none, the two personas,
\* and one that does not exist
RequestCharacterIds == {NoneId, 1, 2, 9}
RequestCharacterNames == {NoneName, "Ann", "Bob", "Zed"}

\* main.py 279-300: bind_character, by id first, else by name; 404 when the
\* character does not exist
BindCharacter(s, character_name, character_id) ==
    /\ LET char == IF character_id # NoneId THEN get_character_by_id(character_id)
                   ELSE IF character_name # NoneName
                        THEN get_character_by_name(character_name)
                   ELSE NoCharacter
       IN  chat_sessions' =
               IF char = NoCharacter THEN chat_sessions
               ELSE [x \in (DOMAIN chat_sessions) \cup {s} |->
                       IF x = s THEN [character_id |-> char.id] ELSE chat_sessions[x]]
    /\ UNCHANGED <<rds, chat_history, req, rm, started, log>>

\* crud.py 11-18 as add_turn calls it: the first turn of a session creates
\* its row with the character id of the request, whatever it is
UpsertSession(s, character_id) ==
    /\ chat_sessions' = upsert_session(chat_sessions, s, character_id)
    /\ UNCHANGED <<rds, chat_history, req, rm, started, log>>

\* main.py 141-144 and 197-200: the prompt of a turn of session s
BuildPrompt(s, character_name, character_id) ==
    /\ LET cid == _fill_bound_character_if_absent(chat_sessions, s,
                                                  character_name, character_id)
       IN  log' = <<[session_id |-> s, character_name |-> character_name,
                     character_id |-> character_id,
                     bound |-> IF s \in DOMAIN chat_sessions
                               THEN chat_sessions[s].character_id ELSE NoneId,
                     system_prompt |-> build_system_prompt(character_name, cid)]>>
    /\ UNCHANGED <<rds, chat_sessions, chat_history, req, rm, started>>

NextPrompt ==
    \/ \E s \in Sessions, character_name \in RequestCharacterNames,
          character_id \in RequestCharacterIds : BindCharacter(s, character_name, character_id)
    \/ \E s \in Sessions, character_id \in RequestCharacterIds : UpsertSession(s, character_id)
    \/ \E s \in Sessions, character_name \in RequestCharacterNames,
          character_id \in RequestCharacterIds : BuildPrompt(s, character_name, character_id)

SpecPrompt == Init /\ [][NextPrompt]_vars

---------------------------------------------------------------------------
(* Turns whose writes never fail: no Redis command of append_pair and no    *)
(* add_turn raises, no key expires and no session is deleted while a turn   *)
(* runs.  The model may still fail, and callers may still go away.          *)

NextFaultless ==
    \/ \E c \in Clients, kind \in {"chat", "stream"}, s \in Sessions :
          Acquire(c, kind, s, Message(started + 1), NoneId)
    \/ \E c \in Clients : Refused(c)
    \/ \E c \in Clients : GetHistory(c)
    \/ \E c \in Clients : LoadAndBuild(c)
    \/ \E c \in Clients, reply \in Replies : ChatCompletion(c, reply)
    \/ \E c \in Clients : ChatCompletionError(c)
    \/ \E c \in Clients, chunk \in Fragments : StreamChunk(c, chunk)
    \/ \E c \in Clients : StreamEnd(c)
    \/ \E c \in Clients : StreamError(c)
    \/ \E c \in Clients : StreamErrorDone(c)
    \/ \E c \in Clients : AppendPairGet(c)
    \/ \E c \in Clients : AppendPairSet(c)
    \/ \E c \in Clients : AddTurn(c)
    \/ \E c \in Clients : Release(c)
    \/ \E c \in Clients : Cancel(c)
    \/ (\A c \in Clients : ~Running(c)) /\ OtherStep

SpecFaultless == Init /\ [][NextFaultless]_vars

---------------------------------------------------------------------------
(* Turns and session deletions in any interleaving, with no key expiring:  *)
(* a lock key disappears only by a release.                                 *)

NextDeletion ==
    \/ TurnStep
    \/ \E s \in Sessions : RemoveSession(s)
    \/ RemoveSessionHistory
    \/ RemoveSessionLock

SpecDeletion == Init /\ [][NextDeletion]_vars

---------------------------------------------------------------------------
(* Properties *)

LockExists(s) == RedisExists(rds, _lock_key(s))

\* the turns that have taken the lock of s and have not finished
Executing(s) == {c \in Clients : Running(c) /\ req[c].session_id = s}

\* this step hands client c a lock: its acquire returned true
Granted(c) == req[c].pc = "idle" /\ req'[c].pc \in {"locked", "gen_pending"}

\* this step refuses client c: its acquire returned false
Denied(c) == req[c].pc = "idle" /\ req'[c].pc = "refused"

\* between its acquire and the end of its persistence (or its abort)
MidTurn(c) == req[c].pc \in RunningPcs \ {"release"}

StoreUnchanged == chat_sessions' = chat_sessions /\ chat_history' = chat_history

HistoryKeyUnchanged(s) ==
    /\ RedisExists(rds', _key(s)) = RedisExists(rds, _key(s))
    /\ get_history(rds', s) = get_history(rds, s)

\* C1: acquire is one set-if-absent-with-expiry.  A step grants the lock of a
\* session only when its key is absent (never set, released, or expired), it
\* creates the key with the lock TTL, and it grants it to one caller only; a
\* step refuses only when the key exists, and leaves the key as it is.
C1_AcquireIsSetIfAbsent ==
    [][\A c \in Clients :
          /\ Granted(c) =>
                LET s == req'[c].session_id
                IN  /\ ~RedisExists(rds, _lock_key(s))
                    /\ RedisExists(rds', _lock_key(s))
                    /\ rds'[_lock_key(s)] = [val |-> 1, ttl |-> SESSION_LOCK_TTL_SECONDS]
                    /\ \A d \in Clients \ {c} : ~Granted(d)
          /\ Denied(c) =>
                /\ RedisExists(rds, _lock_key(req'[c].session_id))
                /\ rds' = rds
      ]_vars

\* a second turn has been granted the lock of a session, after the first
C1_Witness ==
    /\ started = 2
    /\ \E c \in Clients : req[c].pc = "locked" /\ LockExists(req[c].session_id)

\* C2 as claimed: while the lock key of a session exists, at most one turn is
\* executing for it, whatever expires and whatever is deleted.
C2_AtMostOneTurnWhileLocked ==
    \A s \in Sessions : LockExists(s) => Cardinality(Executing(s)) <= 1

OneTurn(s) == Cardinality(Executing(s)) <= 1
Covered(s) == Executing(s) # {} => LockExists(s)

\* C2 as amended: at most one turn executes for a session for as long as the
\* lock key is not removed under a running turn.  From a state where at most
\* one turn executes and the key of a running turn exists, every step leads to
\* a state where at most one turn executes, and the key of a running turn is
\* removed by no step of a turn (only by its expiry or by a session deletion).
C2_OneTurnUntilLockRemoved ==
    [][\A s \in Sessions :
          OneTurn(s) /\ Covered(s) =>
              /\ OneTurn(s)'
              /\ (~Covered(s)' => req' = req)
      ]_vars

\* one turn runs under the lock and a concurrent request has been refused
C2_Witness ==
    \E c, d \in Clients :
        /\ Running(c) /\ req[d].pc = "refused"
        /\ req[d].session_id = req[c].session_id
        /\ LockExists(req[c].session_id)
        /\ Executing(req[c].session_id) = {c}

\* C3 as claimed: every turn that took the lock ends by releasing it, on every
\* exit path: the step by which a lock-holding turn ends is its call of
\* release_session_lock, after which the lock key is gone.
C3_ReleaseOnEveryExit ==
    [][\A c \in Clients :
          Running(c) /\ ~Running(c)' =>
              /\ req[c].pc = "release"
              /\ ~RedisExists(rds', _lock_key(req[c].session_id))
      ]_vars

\* C4: a refused request has no side effects.  The refusing step leaves the
\* keyspace (the holder's lock key included) and both tables as they are, the
\* handler has read no history, built no prompt and called no model, and all
\* it does next is answer 409: it is not queued and does not try again.
C4_ConflictHasNoSideEffects ==
    [][\A c \in Clients :
          /\ Denied(c) =>
                /\ LockExists(req'[c].session_id)
                /\ rds' = rds /\ StoreUnchanged
                /\ req'[c] = [Idle EXCEPT !.pc = "refused", !.kind = req'[c].kind,
                                          !.session_id = req'[c].session_id,
                                          !.status = "409"]
          /\ req[c].pc = "refused" /\ req'[c] # req[c] =>
                /\ req'[c] = Idle
                /\ rds' = rds /\ StoreUnchanged
      ]_vars

\* a request has been refused while the holder of the lock is in flight
C4_Witness ==
    \E c, d \in Clients :
        /\ req[c].pc = "refused" /\ req[c].status = "409"
        /\ MidTurn(d) /\ req[d].session_id = req[c].session_id
        /\ LockExists(req[c].session_id)

UpstreamFailed(q) == q.status \in {"502", "upstream"}

\* C5: a turn whose model call fails persists nothing and releases the lock.
\* A turn writes the cache or the store only in the two persistence steps,
\* which it reaches only after its model call has succeeded; once the call has
\* failed (also after forwarded fragments) every step of the turn leaves the
\* cached history and both tables as they are, and its last step removes the
\* lock key.
C5_NoPersistenceOnUpstreamFailure ==
    /\ [](\A c \in Clients : UpstreamFailed(req[c]) => req[c].pc \in {"err_yielded", "release"})
    /\ [][\A c \in Clients :
            req'[c] # req[c] =>
              LET s == IF req[c].pc = "idle" THEN req'[c].session_id
                       ELSE req[c].session_id
              IN  /\ ~(HistoryKeyUnchanged(s) /\ StoreUnchanged) =>
                        req[c].pc \in {"append_set", "add_turn"}
                  /\ req'[c].pc \in {"append_get", "append_set", "add_turn"} =>
                        /\ ~UpstreamFailed(req[c]) /\ ~UpstreamFailed(req'[c])
                        /\ req[c].pc \in {"model", "append_get", "append_set"}
                  /\ UpstreamFailed(req[c]) \/ UpstreamFailed(req'[c]) =>
                        /\ HistoryKeyUnchanged(s) /\ StoreUnchanged
                        /\ req'[c].pc = "idle" => ~RedisExists(rds', _lock_key(s))
         ]_vars

\* a streaming turn has failed after a forwarded fragment, on a session that
\* has a cached history
C5_Witness ==
    \E c \in Clients :
        /\ req[c].pc = "release" /\ req[c].status = "upstream"
        /\ req[c].out = <<ContentEvent("x"), ErrorEvent, DoneEvent>>
        /\ get_history(rds, req[c].session_id) # <<>>

\* C6: whatever set_history, append_pair and delete_history calls have run, in
\* whatever interleaving, no cached history is longer than 2 * MAX_TURNS.
C6_CacheBounded ==
    \A s \in CacheSessions : Len(get_history(rds, s)) <= 2 * MAX_TURNS

\* a full history that only a truncation leaves behind: it starts with an
\* assistant turn, and every history handed in starts with a user turn
C6_Witness ==
    /\ Len(get_history(rds, "s1")) = 2 * MAX_TURNS
    /\ get_history(rds, "s1")[1].role = "assistant"

C8_FallbackIsMostRecent ==
    [][\A c \in Clients :
          /\ req[c].pc = "load" /\ req'[c].pc = "model"
          /\ req[c].history = <<>>
          /\ SelectRows(chat_history, req[c].session_id) # <<>>
          => req'[c].messages =
               assemble_messages(
                   req'[c].messages[1].content,
                   LastN(RowTurns(SelectRows(chat_history, req[c].session_id)), LOAD_LIMIT),
                   req[c].message)
      ]_vars

\* C9: a successful turn on a fresh session (nothing cached, nothing stored, no
\* character named or bound) makes its model call with the generic persona and
\* the user message alone, and leaves exactly [user m, assistant reply] in the
\* cache and in the store.  Step by step: nothing else touches the session
\* while the turn runs; with no history and no character the prompt is the
\* generic one; append_pair on an empty cache writes the pair alone; add_turn
\* on a session without rows leaves the pair as its only rows.
C9_RoundTrip ==
    [][\A c \in Clients :
          LET q == req[c]
              s == q.session_id
              cached == get_history(rds, s)
              stored == SelectRows(chat_history, s)
          IN  /\ Running(c) /\ req'[c] = q =>
                    /\ get_history(rds', s) = cached
                    /\ SelectRows(chat_history', s) = stored
                    /\ chat_sessions' = chat_sessions
              /\ /\ q.pc = "load" /\ req'[c].pc = "model"
                 /\ q.history = <<>> /\ stored = <<>>
                 /\ q.character_id = NoneId /\ q.character_name = NoneName
                 /\ s \notin DOMAIN chat_sessions
                 => req'[c].messages =
                        <<Turn("system", GenericPrompt), Turn("user", q.message)>>
              /\ q.pc = "append_get" /\ req'[c].pc = "append_set" /\ cached = <<>> =>
                    req'[c].hist = Pair(q.message, q.reply)
              /\ /\ q.pc = "append_set" /\ req'[c].pc = "add_turn"
                 /\ q.hist = Pair(q.message, q.reply)
                 => get_history(rds', s) = Pair(q.message, q.reply)
              /\ /\ q.pc = "add_turn" /\ req'[c].status = "200"
                 /\ stored = <<>> /\ cached = Pair(q.message, q.reply)
                 => /\ RowTurns(SelectRows(chat_history', s)) = Pair(q.message, q.reply)
                    /\ get_history(rds', s) = Pair(q.message, q.reply)
      ]_vars

\* a streaming turn has ended with its pair as the whole of the cached history
\* and as the only rows of the session
C9_Witness ==
    \E c \in Clients :
        /\ req[c].pc = "release" /\ req[c].status = "200" /\ req[c].kind = "stream"
        /\ req[c].reply = "x"
        /\ get_history(rds, req[c].session_id) = Pair(req[c].message, req[c].reply)
        /\ RowTurns(SelectRows(chat_history, req[c].session_id))
              = Pair(req[c].message, req[c].reply)

Aborted(q) == q.status \in {"502", "500", "upstream", "cancelled"}

C11_UnreleasedLockExpires ==
    /\ [](\A s \in CacheSessions :
            RedisExists(rds, _lock_key(s)) =>
                rds[_lock_key(s)].ttl \in 1..SESSION_LOCK_TTL_SECONDS)
    /\ [][\A s \in CacheSessions :
            LET k == _lock_key(s)
            IN  /\ RedisExists(rds, k) /\ RedisExists(rds', k) =>
                      rds'[k].ttl = IF req' = req THEN rds[k].ttl - 1 ELSE rds[k].ttl
                /\ ~RedisExists(rds, k) /\ RedisExists(rds', k) =>
                      \E c \in Clients : Granted(c) /\ req'[c].session_id = s
                /\ \A c \in Clients :
                      Denied(c) /\ req'[c].session_id = s => RedisExists(rds, k)
         ]_vars
    /\ \A s \in CacheSessions :
            RedisExists(rds, _lock_key(s)) ~> ~RedisExists(rds, _lock_key(s))

\* a holder died without releasing, its key ran out, and the next request of
\* the session has been granted the lock
C11_Witness ==
    \E c \in Clients :
        /\ started = 2 /\ req[c].pc = "locked" /\ req[c].session_id = "s1"
        /\ \A d \in Clients \ {c} : req[d].pc = "idle"
        /\ RedisExists(rds, _lock_key("s1"))
        /\ ~RedisExists(rds, _lock_key("s2"))

\* the events of a stream: n forwarded fragments
ContentEvents(n) == [i \in 1..n |-> ContentEvent("x")]

\* C12: when the model stream fails after zero or more forwarded fragments, the
\* turn emits one error event and then the end marker and nothing after it, and
\* writes nothing to the cache or the store.  The failing step appends the
\* error event alone to what was forwarded; what the failed turn has emitted is
\* the forwarded fragments, the error event and, at its end, the end marker
\* right after it; and every step of the failed turn leaves the cached history
\* and both tables as they are.
C12_StreamFailureEvents ==
    /\ [](\A c \in Clients :
            req[c].status = "upstream" =>
                \E n \in 0..MaxFrags :
                    \/ /\ req[c].pc = "err_yielded"
                       /\ req[c].out = ContentEvents(n) \o <<ErrorEvent>>
                    \/ /\ req[c].pc = "release"
                       /\ req[c].out = ContentEvents(n) \o <<ErrorEvent, DoneEvent>>)
    /\ [][\A c \in Clients :
            /\ req[c].status # "upstream" /\ req'[c].status = "upstream" =>
                  /\ req[c].pc = "model" /\ req[c].kind = "stream"
                  /\ req[c].out = ContentEvents(Len(req[c].full_reply_content))
                  /\ req'[c].out = req[c].out \o <<ErrorEvent>>
                  /\ rds' = rds /\ StoreUnchanged
            /\ req[c].status = "upstream" /\ req'[c] # req[c] =>
                  /\ HistoryKeyUnchanged(req[c].session_id) /\ StoreUnchanged
                  /\ req'[c].out # req[c].out =>
                        \/ req'[c].out = req[c].out \o <<DoneEvent>>
                                /\ req[c].pc = "err_yielded"
                        \/ req'[c] = Idle
         ]_vars

\* a stream has failed before its first fragment: the error event, the end marker
C12_Witness ==
    \E c \in Clients :
        /\ req[c].pc = "release" /\ req[c].status = "upstream"
        /\ req[c].out = <<ErrorEvent, DoneEvent>>

\* C13 as claimed: a streaming turn that its caller does not cancel ends with
\* the end marker as the last and only [DONE] of its events, whatever went
\* wrong inside it, and a failure shows as an error event right before the
\* end marker.
C13_StreamEndsWithDone ==
    \A c \in Clients :
        LET q == req[c]
            n == Len(q.out)
        IN  q.kind = "stream" /\ q.pc = "release" /\ q.status # "cancelled" =>
                /\ n >= 1 /\ q.out[n] = DoneEvent
                /\ \A i \in 1..(n - 1) : q.out[i] # DoneEvent
                /\ q.status # "200" => n >= 2 /\ q.out[n - 1] = ErrorEvent

\* the texts of the content events among the events of a stream, in order
Forwarded(out) ==
    LET content == SelectSeq(out, LAMBDA e : e[1] = "content")
    IN  [i \in 1..Len(content) |-> content[i][2]]

\* C14: every fragment of the model stream is forwarded in arrival order and
\* collected, and after normal exhaustion the assistant message written to the
\* cache and to the store is the concatenation, in order, of the fragments
\* that were forwarded.
C14_PersistedIsForwarded ==
    /\ [](\A c \in Clients :
            LET q == req[c]
                s == q.session_id
                text == Join(Forwarded(q.out))
            IN  /\ q.pc = "model" =>
                      q.out = [i \in 1..Len(q.full_reply_content) |->
                                  ContentEvent(q.full_reply_content[i])]
                /\ q.pc \in {"append_get", "append_set", "add_turn"} => q.reply = text
                /\ q.pc = "add_turn" =>
                      LastN(get_history(rds, s), 2) = Pair(q.message, text)
                /\ q.pc = "release" /\ q.status = "200" =>
                      /\ q.out[Len(q.out)] = DoneEvent
                      /\ LastN(get_history(rds, s), 2) = Pair(q.message, text)
                      /\ LastN(RowTurns(SelectRows(chat_history, s)), 2)
                            = Pair(q.message, text))
    /\ [][\A c \in Clients :
            req[c].pc = "model" /\ req'[c].pc = "model" /\ req'[c] # req[c] =>
                \E chunk \in StreamFragments :
                    /\ req'[c].full_reply_content = Append(req[c].full_reply_content, chunk)
                    /\ req'[c].out = Append(req[c].out, ContentEvent(chunk))
         ]_vars

\* the fragments x and y were forwarded in that order and xy has been persisted
C14_Witness ==
    \E c \in Clients :
        /\ req[c].pc = "release" /\ req[c].status = "200"
        /\ req[c].out = <<ContentEvent("x"), ContentEvent("y"), DoneEvent>>
        /\ get_history(rds, req[c].session_id) = Pair(req[c].message, "xy")

Emitted(q, e) == \E i \in 1..Len(q.out) : q.out[i] = e

\* C15: the end marker of a successful streaming turn is emitted only after
\* its cache write and its store write, that of an aborted turn without the
\* turn having written anything, and never while persistence is pending.  A
\* turn that has emitted [DONE] has nothing left to do but release the lock;
\* the step that emits it is either the one in which add_turn commits, taken
\* after append_pair has written the cache, or the one after the error event of
\* a failed model stream, whose turn never reaches a write.
C15_DoneAfterPersistence ==
    /\ [](\A c \in Clients :
            /\ Emitted(req[c], DoneEvent) =>
                  /\ req[c].pc = "release" /\ req[c].kind = "stream"
                  /\ req[c].status \in {"200", "upstream"}
            /\ req[c].pc \in {"append_get", "append_set", "add_turn"} =>
                  req[c].status = "")
    /\ [][\A c \in Clients :
            LET q == req[c]
                s == q.session_id
            IN  /\ ~Emitted(q, DoneEvent) /\ Emitted(req'[c], DoneEvent) =>
                      \/ /\ q.pc = "add_turn" /\ req'[c].status = "200"
                         /\ chat_history' =
                              add_turn(chat_sessions, chat_history, s, q.character_id,
                                       q.character_name, q.message, q.reply, q.txn).rows
                      \/ /\ q.pc = "err_yielded" /\ q.status = "upstream"
                         /\ rds' = rds /\ StoreUnchanged
                /\ req'[c].pc = "add_turn" /\ q.pc # "add_turn" =>
                      /\ q.pc = "append_set"
                      /\ rds' = set_history(rds, s, q.hist)
                      /\ LastN(q.hist, 2) = Pair(q.message, q.reply)
                /\ req'[c].pc = "err_yielded" /\ q.pc # "err_yielded" =>
                      q.pc = "model"
                /\ req'[c].pc = "model" /\ q.pc # "model" => q.pc = "load"
                /\ req'[c] # q /\ q.pc \in {"locked", "gen_pending", "load", "model",
                                            "err_yielded"} =>
                      HistoryKeyUnchanged(s) /\ StoreUnchanged
         ]_vars

\* a streaming turn without fragments has written both and emitted [DONE]
C15_Witness ==
    \E c \in Clients :
        /\ req[c].pc = "release" /\ req[c].status = "200"
        /\ req[c].out = <<DoneEvent>>
        /\ Len(SelectRows(chat_history, req[c].session_id)) >= 2
        /\ get_history(rds, req[c].session_id) # <<>>

\* C16 as claimed: when the caller of a streaming turn goes away before the
\* end marker (before the generator first runs, between two fragments or after
\* the last one), the turn stops emitting but still goes on to its writes, and
\* it ends by releasing the lock.
C16_CancelledStreamStillPersists ==
    [][\A c \in Clients :
          LET q == req[c]
          IN  /\ /\ q.kind = "stream" /\ MidTurn(c) /\ req'[c] # q
                 /\ req'[c].status = "cancelled" \/ ~Running(c)'
                 => /\ req'[c].pc \in {"append_get", "append_set", "add_turn"}
                    /\ req'[c].out = q.out
              /\ q.kind = "stream" /\ Running(c) /\ ~Running(c)' =>
                    ~RedisExists(rds', _lock_key(q.session_id))
      ]_vars

\* C17 as claimed: whatever state a session is in, a deletion of it that runs
\* to its end leaves no session row, no turn, no cache entry and no lock key
\* of that session, also when there was a cache entry or a held lock but no
\* session row.
C17_DeletionLeavesNothing ==
    \A s \in Sessions :
        rm.pc = "idle" =>
            LET after == remove_session(rds, chat_sessions, chat_history, s)
            IN  /\ s \notin DOMAIN after.sessions
                /\ SelectRows(after.rows, s) = <<>>
                /\ ~RedisExists(after.rds, _key(s))
                /\ ~RedisExists(after.rds, _lock_key(s))

\* C18 as claimed: read-your-writes.  When the turn before this one completed
\* (its two rows are the newest of the session in the store), the history this
\* turn puts into its prompt, from the cache or from the store when the cache
\* entry is gone, ends with that turn's user message and its reply.
C18_ReadYourWrites ==
    [][\A c \in Clients :
          LET q == req[c]
              rows == SelectRows(chat_history, q.session_id)
              n == Len(rows)
              messages == req'[c].messages
              k == Len(messages)
          IN  /\ q.pc = "load" /\ req'[c].pc = "model"
              /\ started >= 2 /\ q.message = Message(started)
              /\ n >= 2
              /\ rows[n - 1].role = "user" /\ rows[n - 1].message = Message(started - 1)
              /\ rows[n].role = "assistant"
              => /\ k >= 4
                 /\ messages[k - 2] = Turn("user", rows[n - 1].message)
                 /\ messages[k - 1] = Turn("assistant", rows[n].message)
      ]_vars

\* C19 as claimed: the model client reports an upstream failure by failing the
\* call, never as content.  The one-shot call raises on a status other than 200
\* and on a body it cannot read; the streaming call raises on a status other
\* than 200 without yielding anything, and when it ends without raising it has
\* yielded text fragments only (the end markers apart).
C19_FailureIsNeverContent ==
    \A i \in 1..Len(log) :
        LET r == log[i]
        IN  /\ r.call = "chat_completion" =>
                   /\ r.status # 200 \/ r.body # "completion" => r.result.raised # ""
                   /\ r.result.raised = "" => r.result.returned = "x"
            /\ r.call = "chat_stream" =>
                   /\ r.status # 200 => r.result.raised # "" /\ r.result.yielded = <<>>
                   /\ r.result.raised = "" =>
                          \A j \in 1..Len(r.result.yielded) :
                              r.result.yielded[j][1] \in {"content", "[DONE]"}

\* C20 as claimed: every write to the cached history or to the durable turns
\* of a session (the expiry of the cache entry is not a write) is a step of a
\* turn of that session, taken while the session's lock key exists: never by a
\* turn whose lock has expired or has been deleted by someone else, and never
\* by a request that took no lock.
C20_WritesUnderLock ==
    [][\A s \in Sessions :
          /\ ~HistoryKeyUnchanged(s) \/ ~StoreUnchanged
          /\ req' # req \/ rm' # rm
          => \E c \in Clients :
                /\ req[c].session_id = s /\ req'[c] # req[c]
                /\ req[c].pc \in {"append_set", "add_turn"}
                /\ LockExists(s)
      ]_vars

\* the lock of session s is held after the calls of log: some acquire of s
\* succeeded and no release of s came after it
HeldAfter(calls, s) ==
    \E i \in 1..Len(calls) :
        /\ calls[i].op = "acquire_session_lock" /\ calls[i].session_id = s
        /\ calls[i].returned = <<TRUE>>
        /\ \A j \in (i + 1)..Len(calls) :
               ~(calls[j].op = "release_session_lock" /\ calls[j].session_id = s)

\* key k is the same before and after the step: absent, or present with the
\* same value and the same time to live
KeyUnchanged(k) ==
    /\ RedisExists(rds', k) = RedisExists(rds, k)
    /\ RedisExists(rds, k) => rds'[k] = rds[k]

\* C21: exclusion is per session key.  An acquire for a session returns false
\* only when that session's own lock is held, whatever other sessions hold;
\* a call for a session leaves the history entry and the lock key of every
\* other session as they are; a lock call leaves every history entry, and a
\* history call every lock key, as it is.
C21_PerSessionKeys ==
    [][Len(log') = Len(log) + 1 =>
          LET call == log'[Len(log')]
              s == call.session_id
          IN  /\ call.op = "acquire_session_lock" =>
                     call.returned = <<~HeldAfter(log, s)>>
              /\ \A t \in CacheSessions \ {s} :
                     KeyUnchanged(_key(t)) /\ KeyUnchanged(_lock_key(t))
              /\ call.op \in LockOps => \A t \in CacheSessions : KeyUnchanged(_key(t))
              /\ call.op \in HistoryOps =>
                     \A t \in CacheSessions : KeyUnchanged(_lock_key(t))
      ]_vars

\* the lock of s1 is held, s1 has a history entry, and an acquire for s2 has
\* just returned true
C21_Witness ==
    /\ Len(log) = MaxCalls
    /\ HeldAfter(log, "s1") /\ RedisExists(rds, _lock_key("s1"))
    /\ RedisExists(rds, _key("s1"))
    /\ log[Len(log)] = [op |-> "acquire_session_lock", session_id |-> "s2",
                         returned |-> <<TRUE>>]

\* C22: the cache write comes before the store write and nothing ties the two
\* together.  A turn is at its store write only with its pair already in the
\* cache.  When append_pair fails, the store stays as it is; when add_turn
\* fails, the store stays as it is while the cache ends with the turn's pair.
\* Either failure leaves the handler uncaught (status 500, nothing more is
\* emitted), and the handler's last step still deletes the lock key.
C22_CacheThenStoreNoTransaction ==
    [][\A c \in Clients :
          LET q == req[c]
              s == q.session_id
              failed == q.pc \in {"append_get", "append_set", "add_turn"}
                        /\ req'[c].pc = "release" /\ req'[c].status = "500"
          IN  /\ req'[c].pc = "add_turn" =>
                     LastN(get_history(rds', req'[c].session_id), 2)
                         = Pair(req'[c].message, req'[c].reply)
              /\ failed =>
                     /\ StoreUnchanged /\ rds' = rds
                     /\ req'[c].out = q.out
                     /\ \A i \in 1..Len(chat_history) : chat_history[i].message # q.message
              /\ failed /\ q.pc = "add_turn" =>
                     LastN(get_history(rds', s), 2) = Pair(q.message, q.reply)
              /\ q.pc = "release" /\ q.status = "500" /\ req'[c] # q =>
                     /\ req'[c].pc = "idle"
                     /\ StoreUnchanged
                     /\ ~RedisExists(rds', _lock_key(s))
      ]_vars

\* add_turn has failed after append_pair wrote: the cache holds the pair, the
\* store has no row, the lock is still to be released
C22_Witness ==
    \E c \in Clients :
        /\ req[c].pc = "release" /\ req[c].status = "500"
        /\ Len(get_history(rds, req[c].session_id)) = 2
        /\ chat_history = <<>> /\ chat_sessions = <<>>
        /\ LockExists(req[c].session_id)

\* C23: the history loaded from the store on a cache miss is not written back
\* to the cache.  The fallback step leaves the session's entry absent; from a
\* turn's read of the cache up to its own append_pair write no step touches the
\* entry; so append_pair's own read of an absent entry misses again and the
\* turn writes its pair alone.
C23_NoWriteBackOnMiss ==
    [][\A c \in Clients :
          LET q == req[c]
              s == q.session_id
          IN  /\ q.pc \in {"load", "model", "err_yielded", "append_get"} =>
                     KeyUnchanged(_key(s))
              /\ q.pc = "load" /\ q.history = <<>> /\ req'[c].pc = "model" =>
                     /\ rds' = rds
                     /\ ~RedisExists(rds', _key(s))
              /\ q.pc = "append_get" /\ req'[c].pc = "append_set"
                 /\ ~RedisExists(rds, _key(s)) =>
                     req'[c].hist = Pair(q.message, q.reply)
      ]_vars

\* a turn has loaded its history from the store and is at the model call:
\* the prompt carries the loaded history, the cache entry is still absent
C23_Witness ==
    \E c \in Clients :
        /\ req[c].pc = "model" /\ Len(req[c].messages) > 2
        /\ SelectRows(chat_history, req[c].session_id) # <<>>
        /\ ~RedisExists(rds, _key(req[c].session_id))

\* C24: the expiry of a history entry slides on writes only.  An entry always
\* has between 1 and TTL_SECONDS seconds to live.  set_history and append_pair
\* leave the entry with TTL_SECONDS to live; get_history changes nothing, and
\* returns the empty sequence when the entry is absent; a second that passes
\* takes one second off the entry, which is gone when its last second passes.
\* So an entry is gone TTL_SECONDS after its last write: an entry that exists
\* ceases to exist unless it is written again and again.
C24_ExpirySlidesOnWrites ==
    /\ [](\A s \in Sessions :
             RedisExists(rds, _key(s)) => rds[_key(s)].ttl \in 1..TTL_SECONDS)
    /\ [][\A s \in Sessions :
             LET k == _key(s)
             IN  IF Len(log') = Len(log) + 1
                 THEN LET call == log'[Len(log')]
                      IN  /\ call.op \in {"set_history", "append_pair"} =>
                                 /\ RedisExists(rds', k)
                                 /\ rds'[k].ttl = TTL_SECONDS
                          /\ call.op = "get_history" =>
                                 /\ rds' = rds
                                 /\ ~RedisExists(rds, k) => call.returned = <<>>
                                 /\ RedisExists(rds, k) =>
                                        call.returned = json_loads(rds[k].val)
                 ELSE RedisExists(rds, k) =>
                         IF rds[k].ttl = 1 THEN ~RedisExists(rds', k)
                         ELSE rds'[k] = [rds[k] EXCEPT !.ttl = @ - 1]
         ]_vars
    /\ \A s \in Sessions :
           RedisExists(rds, _key(s)) ~> ~RedisExists(rds, _key(s))

\* an entry was written, was read a second before its end, has expired, and
\* the read that followed returned the empty sequence
C24_Witness ==
    /\ Len(log) = 3
    /\ log[1].op = "append_pair"
    /\ log[2].op = "get_history" /\ log[2].returned # <<>>
    /\ log[3].op = "get_history" /\ log[3].returned = <<>>
    /\ ~RedisExists(rds, _key("s1"))

\* the prompts of the two personas: the name, the attributes that are not
\* empty in the order background, personality, skills, style, the instruction
PersonaPrompt(id) ==
    IF id = 1 THEN "name:Ann\nbackground:bg\nskills:sk\nstay in character"
    ELSE "name:Bob\npersonality:pe\nstyle:st\nstay in character"

\* the characters a prompt request resolves to: by its id, by its name, or,
\* when it names neither, by the character bound to its session
ResolvedIds(r) ==
    {id \in {1, 2} :
        \/ r.character_id = id
        \/ r.character_name = character_info[id].name
        \/ r.character_id = NoneId /\ r.character_name = NoneName /\ r.bound = id}

\* C25 as claimed: the prompt is the generic persona exactly when neither the
\* request's character id, nor its character name, nor (for a request naming
\* neither) the session's bound character is an existing character; when one
\* of them is, the prompt is that character's name, its non-empty attributes
\* in order and the instruction to stay in character.
C25_PromptFollowsResolvableCharacter ==
    \A i \in 1..Len(log) :
        LET r == log[i]
        IN  /\ (r.system_prompt = GenericPrompt) = (ResolvedIds(r) = {})
            /\ ResolvedIds(r) # {} =>
                   r.system_prompt \in {PersonaPrompt(id) : id \in ResolvedIds(r)}

\* the one character a prompt request selects: the request's id when it
\* carries one, else the request's name when it carries one, else the
\* character bound to the session; NoneId when that character does not exist
SelectedId(r) ==
    LET ids == IF r.character_id # NoneId THEN {r.character_id}
               ELSE IF r.character_name # NoneName
                    THEN {id \in {1, 2} : character_info[id].name = r.character_name}
               ELSE {r.bound}
    IN  IF ids \cap {1, 2} = {} THEN NoneId ELSE CHOOSE id \in ids \cap {1, 2} : TRUE

\* C25, amended: a request selects one character, by its character id when it
\* carries one, else by its character name when it carries one, else by the
\* session's bound character.  The prompt is the generic persona exactly when
\* the selected character does not exist (a name is not tried when the id is
\* unknown); otherwise it is the selected character's name, its non-empty
\* attributes in the order background, personality, skills, style, and the
\* instruction to stay in character.
C25_PromptFollowsSelectedCharacter ==
    \A i \in 1..Len(log) :
        LET r == log[i]
        IN  r.system_prompt = IF SelectedId(r) = NoneId THEN GenericPrompt
                              ELSE PersonaPrompt(SelectedId(r))

\* a request naming no character, in a session bound to the second persona,
\* got that persona's prompt
C25_Witness ==
    /\ Len(log) = 1
    /\ log[1].character_id = NoneId /\ log[1].character_name = NoneName
    /\ log[1].bound = 2
    /\ log[1].system_prompt = PersonaPrompt(2)

\* C26: the cached history of a session, when present, is a sequence of whole
\* pairs: an even number of entries, user and assistant in alternation, a user
\* entry first; neither the truncation nor append_pair calls racing each other
\* leave half a pair.
C26_CacheHoldsWholePairs ==
    \A s \in Sessions :
        LET history == get_history(rds, s)
        IN  /\ Len(history) % 2 = 0
            /\ \A i \in 1..Len(history) :
                   history[i].role = IF i % 2 = 1 THEN "user" ELSE "assistant"

\* the second turn has written the cache after the first one had: the entry
\* was cut back to the bound and begins with the second turn's message
C26_Witness ==
    /\ started = 2
    /\ Len(SelectRows(chat_history, "s1")) >= 2
    /\ Len(get_history(rds, "s1")) = 2 * MAX_TURNS
    /\ get_history(rds, "s1")[2 * MAX_TURNS - 1].content = Message(2)

\* the turns of session s in the store, oldest first
StoredTurns(s) == RowTurns(SelectRows(chat_history, s))

\* a turn of s has written the cache and has not written the store yet
BetweenWrites(s) == \E c \in Clients : req[c].session_id = s /\ req[c].pc = "add_turn"

IsSuffix(h, t) == Len(h) <= Len(t) /\ h = LastN(t, Len(h))

\* C27 as claimed: when no write fails and no turn outlives its lock, in every
\* state where no turn of a session is between its cache write and its store
\* write, the cached history of the session (empty when there is no entry) is
\* a suffix of the session's turns in the store.
C27_CacheIsSuffixOfStore ==
    \A s \in Sessions :
        ~BetweenWrites(s) => IsSuffix(get_history(rds, s), StoredTurns(s))

\* the pair of the turn of s that is between its writes, if there is one
Ahead(s) ==
    IF BetweenWrites(s)
    THEN LET c == CHOOSE c \in Clients : req[c].session_id = s /\ req[c].pc = "add_turn"
         IN  Pair(req[c].message, req[c].reply)
    ELSE <<>>

\* the cache holds the newest turns of the store, the pair of the turn between
\* its writes counted with them
Consistent(s) == IsSuffix(get_history(rds, s), StoredTurns(s) \o Ahead(s))

\* C27, amended: when no write fails, no turn outlives its lock and no session
\* is deleted under a running turn, the cached history of a session is a
\* suffix of the session's stored turns (followed by the pair of the turn that
\* is between its cache write and its store write), and every step keeps it
\* so but two: a caller going away between a turn's cache write and its store
\* write, which leaves the pair in the cache alone, and the store delete of a
\* session deletion, whose cache delete comes a step later.
C27_CacheFollowsStore ==
    [][\A s \in Sessions :
          LET cancelled == \E c \in Clients :
                               /\ req[c].session_id = s /\ req[c].pc = "add_turn"
                               /\ req'[c].status = "cancelled"
              deleting == rm.pc = "idle" /\ rm'.pc = "delete_history" /\ rm'.sid = s
          IN  /\ Consistent(s) /\ ~cancelled /\ ~deleting => Consistent(s)'
              /\ rm.pc = "delete_history" /\ rm.sid = s /\ rm'.pc # rm.pc => Consistent(s)'
      ]_vars

\* two turns have completed: the store holds both, the cache the second only
C27_Witness ==
    /\ \A c \in Clients : req[c].pc = "idle"
    /\ rm.pc = "idle"
    /\ Len(StoredTurns("s1")) = 4
    /\ get_history(rds, "s1") = LastN(StoredTurns("s1"), 2 * MAX_TURNS)
    /\ get_history(rds, "s1") # <<>>

\* C28 as claimed: a turn that was in flight when its session was deleted (no
\* key expires here, so a turn past its acquire whose lock key is gone has had
\* it deleted by a session deletion) does not re-create what the deletion
\* removed: its cache write does not bring the cache entry back, its store
\* write brings back neither the session row nor turns.
C28_DeletedSessionStaysDeleted ==
    [][\A c \in Clients :
          LET q == req[c]
              s == q.session_id
          IN  /\ q.pc \in {"append_set", "add_turn"} /\ req'[c] # q
              /\ ~LockExists(s) /\ rm.pc = "idle"
              => /\ ~RedisExists(rds, _key(s)) => ~RedisExists(rds', _key(s))
                 /\ s \notin DOMAIN chat_sessions => s \notin DOMAIN chat_sessions'
                 /\ SelectRows(chat_history, s) = <<>> =>
                        SelectRows(chat_history', s) = <<>>
      ]_vars

====
